---- MODULE Spec2Model ----
(***************************************************************************)
(* Model of src/app.ts: the publish/subscribe service, the vending machines *)
(* and the four subscribers.                                                *)
(*                                                                          *)
(* publish() delivers synchronously and depth-first, so the model keeps the *)
(* call stack of the forEach loops that are in progress.  A JavaScript      *)
(* array is an object: the forEach of publish() holds a REFERENCE to the    *)
(* array found in the registry, reads its length once and reads each        *)
(* element when it reaches it.  subscribe() pushes onto that same object,   *)
(* unsubscribe() stores a NEW filtered array in the registry and leaves the *)
(* old object untouched.  A frame therefore is either live (it aliases the  *)
(* array the registry holds for its kind) or detached (it holds the old     *)
(* object, whose contents nobody can change any more).                      *)
(***************************************************************************)
EXTENDS Integers, Sequences, FiniteSets, TLC

VARIABLES
    machines,      \* Machine objects by id: stockLevel and the two latches
    subscribers,   \* PublishSubscribeService.subscribers: kind -> array
    stack,         \* forEach loops of publish() in progress, innermost last
    passLog,       \* history, parallel to stack: what each pass saw and did
    emitted,       \* history: events published by the latest top-level publish
    calls,         \* history: handler invocations of the latest top-level publish
    pre,           \* history: machines and registry when the latest top-level
                   \*          call began
    registered,    \* history: registrations per kind in the order they were made
    watch,         \* history: at most one <<kind, handler>> that was unsubscribed
                   \*          and has not been subscribed again since
    lowSince,      \* history: LowStockWarning count per machine since the last
                   \*          refill that crossed the threshold upward
    ledger,        \* history: per machine, the refilled minus the sold quantities
                   \*          of the events published with PublishTallied for its id
    latchPubs,     \* history: per machine, the publish calls made by the
                   \*          low-stock and the stock-ok subscriber
    raised         \* history: the exception the latest call of the program to
                   \*          the service ended with, when the service raised it

vars == <<machines, subscribers, stack, passLog, emitted, calls, pre, registered,
          watch, lowSince, ledger, latchPubs, raised>>

----------------------------------------------------------------------------
(* Bounds of the model *)

MaxShortfall == 2
MaxStock == 12
MaxSubs == 3
CountCap == 3

(* Program constants *)

InitialStock == 10
Threshold == 3

MachineIds == {"001", "002", "003"}
\* An id that no machine has.
UnknownId == "999"
\* The machines the explored events are addressed to: the handlers find one
\* machine by its id, so the third machine is never addressed.
EventMachineIds == {"001", "002", UnknownId}

EventKinds == {"sale", "refill", "lowStockWarning", "stockLevelOk"}
ProgramKeys == {"low_stock_warning", "stock_level_ok"}
\* The registry is a plain object: a kind that names a member of
\* Object.prototype is found in it although nobody has stored it.
PrototypeKeys == {"toString"}
Kinds == EventKinds \cup ProgramKeys \cup PrototypeKeys

\* Quantities passed to the constructors of the events: the generator makes
\* sales of 1 and 2 and refills of 3 and 5, a caller any number.
SaleQtys == {1, 2, 8}
RefillQtys == {3, 5}

saleSubscriber == "saleSubscriber"
refillSubscriber == "refillSubscriber"
lowStockWarningSubscriber == "lowStockWarningSubscriber"
stockLevelOkSubscriber == "stockLevelOkSubscriber"
RepoHandlers == {saleSubscriber, refillSubscriber, lowStockWarningSubscriber,
                 stockLevelOkSubscriber}
GenericHandlers == {"g1", "g2"}
Handlers == RepoHandlers \cup GenericHandlers

----------------------------------------------------------------------------
(* Events *)

MachineSaleEvent(sold, machineId) ==
    [type |-> "sale", machineId |-> machineId, qty |-> sold]
MachineRefillEvent(refill, machineId) ==
    [type |-> "refill", machineId |-> machineId, qty |-> refill]
LowStockWarningEvent(machineId) ==
    [type |-> "lowStockWarning", machineId |-> machineId, qty |-> 0]
StockLevelOkEvent(machineId) ==
    [type |-> "stockLevelOk", machineId |-> machineId, qty |-> 0]

SaleEvents == {MachineSaleEvent(q, m) : q \in SaleQtys, m \in EventMachineIds}
RefillEvents == {MachineRefillEvent(q, m) : q \in RefillQtys, m \in EventMachineIds}
NotificationEvents == {LowStockWarningEvent(m) : m \in EventMachineIds}
                      \cup {StockLevelOkEvent(m) : m \in EventMachineIds}
\* An event of a class of the caller, whose type() is the given string.
CallerEvent(type, machineId) == [type |-> type, machineId |-> machineId, qty |-> 0]
CallerEvents == {CallerEvent(k, "001") : k \in PrototypeKeys}
Events == SaleEvents \cup RefillEvents \cup NotificationEvents \cup CallerEvents

(* Machine *)

Machine == [stockLevel |-> InitialStock,
            lowStockWarningFired |-> FALSE,
            stockLevelOkFired |-> FALSE]

----------------------------------------------------------------------------
(* Helpers *)

Min(a, b) == IF a < b THEN a ELSE b
Range(s) == {s[i] : i \in DOMAIN s}
Put(f, k, v) == [x \in DOMAIN f \cup {k} |-> IF x = k THEN v ELSE f[x]]
Lookup(f, k) == IF k \in DOMAIN f THEN f[k] ELSE <<>>
Count(s, x) == Cardinality({i \in DOMAIN s : s[i] = x})
RECURSIVE SumLen(_, _)
SumLen(f, ks) ==
    IF ks = {} THEN 0
    ELSE LET k == CHOOSE x \in ks : TRUE IN Len(f[k]) + SumLen(f, ks \ {k})
TotalSubs(subs) == SumLen(subs, DOMAIN subs)
Bump(n) == IF n < CountCap THEN n + 1 ELSE n

----------------------------------------------------------------------------
(* PublishSubscribeService *)

\* Faulty variant: a handler that is already in the sequence is not added again.
SubscribeOpDedup(subs, type, handler) ==
    LET s1 == IF type \in DOMAIN subs THEN subs ELSE Put(subs, type, <<>>)
    IN  IF handler \in Range(s1[type]) THEN s1
        ELSE Put(s1, type, Append(s1[type], handler))

\* Faulty variant: the handler is put in front of the sequence (unshift for push).
SubscribeOpPrepend(subs, type, handler) ==
    LET s1 == IF type \in DOMAIN subs THEN subs ELSE Put(subs, type, <<>>)
    IN  Put(s1, type, <<handler>> \o s1[type])

SubscribeOp(subs, type, handler) ==
    LET s1 == IF type \in DOMAIN subs THEN subs ELSE Put(subs, type, <<>>)
    IN  Put(s1, type, Append(s1[type], handler))

\* Faulty variant: only the first occurrence of the handler is removed.
RECURSIVE RemoveFirst(_, _)
RemoveFirst(s, x) ==
    IF s = <<>> THEN <<>>
    ELSE IF Head(s) = x THEN Tail(s)
         ELSE <<Head(s)>> \o RemoveFirst(Tail(s), x)
UnsubscribeOpFirstOnly(subs, type, handler) ==
    IF type \in DOMAIN subs
    THEN Put(subs, type, RemoveFirst(subs[type], handler))
    ELSE subs

UnsubscribeOp(subs, type, handler) ==
    IF type \in DOMAIN subs
    THEN Put(subs, type, SelectSeq(subs[type], LAMBDA s : s # handler))
    ELSE subs

\* Faulty variant: unsubscribe() removes from the registry's array in place, so the
\* loops that are iterating it see the removal.
DetachInPlace(stk, subs, type) == stk

\* unsubscribe() replaces the registry's array by a new one: the loops that
\* are iterating the old array keep it, with the contents it has now.
Detach(stk, subs, type) ==
    IF type \in DOMAIN subs
    THEN [i \in DOMAIN stk |->
            IF stk[i].live /\ stk[i].key = type
            THEN [stk[i] EXCEPT !.live = FALSE, !.arr = subs[type]]
            ELSE stk[i]]
    ELSE stk

\* this.subscribers[type] for a kind that was never stored: undefined, or the
\* member of Object.prototype of that name, which is truthy and no array, so
\* that push, filter and forEach on it raise a TypeError.
Inherited(type) == type \in PrototypeKeys

\* The array a forEach loop is iterating.
ArrayOf(f, subs) == IF f.live THEN subs[f.key] ELSE f.arr

\* publish(): look the kind up; undefined means no loop at all, otherwise a
\* forEach over the array found, whose length is read once.
NewFrames(subs, ev) ==
    IF ev.type \in DOMAIN subs
    THEN <<[ev |-> ev, key |-> ev.type, live |-> TRUE, arr |-> <<>>,
            len |-> Len(subs[ev.type]), idx |-> 0]>>
    ELSE <<>>


----------------------------------------------------------------------------
(* Subscribers: each handle() as a function from the machines and the event *)
(* to the machines afterwards, the events it publishes and whether it threw.*)

Result(ms, out) == [machines |-> ms, out |-> out, threw |-> FALSE]
\* The parameter types of handle() are erased at run time: on an event of
\* another class the getter of the quantity does not exist and the call of it
\* raises a TypeError, before anything is written.
Thrown(ms) == [machines |-> ms, out |-> <<>>, threw |-> TRUE]

\* Faulty variant: the quantity is taken from every machine, not from the
\* addressed one only.
MachineSaleSubscriberHandleAll(ms, ev) ==
    IF ev.machineId \in DOMAIN ms
    THEN IF ev.type # "sale" THEN Thrown(ms)
         ELSE LET id == ev.machineId
                  ms1 == [m \in DOMAIN ms |-> [ms[m] EXCEPT !.stockLevel = @ - ev.qty]]
              IN  Result(ms1, IF ms1[id].stockLevel < Threshold
                              THEN <<LowStockWarningEvent(id)>> ELSE <<>>)
    ELSE Result(ms, <<>>)

\* Faulty variant: the stock is floored at zero.
MachineSaleSubscriberHandleFloor(ms, ev) ==
    IF ev.machineId \in DOMAIN ms
    THEN IF ev.type # "sale" THEN Thrown(ms)
         ELSE LET id == ev.machineId
                  ms1 == [ms EXCEPT ![id].stockLevel =
                                        IF @ - ev.qty < 0 THEN 0 ELSE @ - ev.qty]
              IN  Result(ms1, IF ms1[id].stockLevel < Threshold
                              THEN <<LowStockWarningEvent(id)>> ELSE <<>>)
    ELSE Result(ms, <<>>)

\* Faulty variant: an id that findIndex does not find falls back to the first
\* machine of the list.
MachineSaleSubscriberHandleFallback(ms, ev) ==
    IF ev.type # "sale" THEN Thrown(ms)
    ELSE LET id == IF ev.machineId \in DOMAIN ms THEN ev.machineId ELSE "001"
             ms1 == [ms EXCEPT ![id].stockLevel = @ - ev.qty]
         IN  Result(ms1, IF ms1[id].stockLevel < Threshold
                         THEN <<LowStockWarningEvent(id)>> ELSE <<>>)

MachineSaleSubscriberHandle(ms, ev) ==
    IF ev.machineId \in DOMAIN ms
    THEN IF ev.type # "sale" THEN Thrown(ms)
         ELSE LET id == ev.machineId
                  ms1 == [ms EXCEPT ![id].stockLevel = @ - ev.qty]
              IN  Result(ms1, IF ms1[id].stockLevel < Threshold
                              THEN <<LowStockWarningEvent(id)>> ELSE <<>>)
    ELSE Result(ms, <<>>)

MachineRefillSubscriberHandle(ms, ev) ==
    IF ev.machineId \in DOMAIN ms
    THEN IF ev.type # "refill" THEN Thrown(ms)
         ELSE LET id == ev.machineId
                  previousStockLevel == ms[id].stockLevel
                  ms1 == [ms EXCEPT ![id].stockLevel = @ + ev.qty]
              IN  Result(ms1, IF previousStockLevel < Threshold
                                 /\ ms1[id].stockLevel >= Threshold
                              THEN <<StockLevelOkEvent(id)>> ELSE <<>>)
    ELSE Result(ms, <<>>)

\* Faulty variant: the instanceof test is missing, so the subscriber acts on
\* the notification events it receives as well.
LowStockWarningSubscriberHandleAnyEvent(ms, ev) ==
    IF /\ ev.machineId \in DOMAIN ms
       /\ ms[ev.machineId].stockLevel < Threshold
       /\ ~ms[ev.machineId].lowStockWarningFired
    THEN Result([ms EXCEPT ![ev.machineId].lowStockWarningFired = TRUE],
                <<LowStockWarningEvent(ev.machineId)>>)
    ELSE Result(ms, <<>>)

\* Faulty variant: the latch is tested but never set.
LowStockWarningSubscriberHandleNoLatch(ms, ev) ==
    IF /\ ev.type = "sale"
       /\ ev.machineId \in DOMAIN ms
       /\ ms[ev.machineId].stockLevel < Threshold
       /\ ~ms[ev.machineId].lowStockWarningFired
    THEN Result(ms, <<LowStockWarningEvent(ev.machineId)>>)
    ELSE Result(ms, <<>>)

LowStockWarningSubscriberHandle(ms, ev) ==
    IF /\ ev.type = "sale"
       /\ ev.machineId \in DOMAIN ms
       /\ ms[ev.machineId].stockLevel < Threshold
       /\ ~ms[ev.machineId].lowStockWarningFired
    THEN Result([ms EXCEPT ![ev.machineId].lowStockWarningFired = TRUE],
                <<LowStockWarningEvent(ev.machineId)>>)
    ELSE Result(ms, <<>>)

StockLevelOkSubscriberHandle(ms, ev) ==
    IF /\ ev.type = "refill"
       /\ ev.machineId \in DOMAIN ms
       /\ ms[ev.machineId].stockLevel >= Threshold
       /\ ~ms[ev.machineId].stockLevelOkFired
    THEN Result([ms EXCEPT ![ev.machineId].stockLevelOkFired = TRUE],
                <<StockLevelOkEvent(ev.machineId)>>)
    ELSE Result(ms, <<>>)

Handle(h, ms, ev) ==
    CASE h = saleSubscriber -> MachineSaleSubscriberHandle(ms, ev)
      [] h = refillSubscriber -> MachineRefillSubscriberHandle(ms, ev)
      [] h = lowStockWarningSubscriber -> LowStockWarningSubscriberHandle(ms, ev)
      [] h = stockLevelOkSubscriber -> StockLevelOkSubscriberHandle(ms, ev)

----------------------------------------------------------------------------
(* History bookkeeping (no counterpart in the code) *)

RegSubscribed(regd, type, handler) == [regd EXCEPT ![type] = Append(@, handler)]
RegUnsubscribed(regd, type, handler) ==
    [regd EXCEPT ![type] = SelectSeq(@, LAMBDA s : s # handler)]

LowSinceAfter(ls, h, out) ==
    IF out = <<>> THEN ls
    ELSE IF out[1].type = "lowStockWarning"
         THEN [ls EXCEPT ![out[1].machineId] = Bump(@)]
         ELSE IF h = refillSubscriber
              THEN [ls EXCEPT ![out[1].machineId] = 0]
              ELSE ls

Ledgered(led, ev) ==
    IF ev.machineId \in DOMAIN led
    THEN CASE ev.type = "sale" -> [led EXCEPT ![ev.machineId] = @ - ev.qty]
           [] ev.type = "refill" -> [led EXCEPT ![ev.machineId] = @ + ev.qty]
           [] OTHER -> led
    ELSE led

LatchPubsAfter(lp, h, out) ==
    IF out = <<>> THEN lp
    ELSE IF h = lowStockWarningSubscriber
         THEN [lp EXCEPT ![out[1].machineId].low = Bump(@)]
         ELSE IF h = stockLevelOkSubscriber
              THEN [lp EXCEPT ![out[1].machineId].ok = Bump(@)]
              ELSE lp

\* Record of a publish call: who called, the event, the registry's sequence
\* for the kind at the call (by value), the registrations made for it, and
\* the index in calls of the handler invocation that made the call (0 for
\* the program).
Published(h, out, subs, regd, at) ==
    [i \in DOMAIN out |->
        [by |-> h, ev |-> out[i], to |-> Lookup(subs, out[i].type),
         reg |-> regd[out[i].type], at |-> at]]

\* History of a pass, one per frame: the registry's sequence for the kind
\* when the pass began (by value), the registration order then, the watched
\* handler if it is of this kind, the handlers called so far, and the index
\* in emitted of the publish call the pass belongs to.
NewPass(frames, ev, subs, regd, w, n) ==
    [i \in DOMAIN frames |->
        [snap |-> Lookup(subs, ev.type),
         order |-> regd[ev.type],
         banned |-> {h \in Handlers : <<ev.type, h>> \in w},
         delivered |-> <<>>,
         pub |-> n]]

----------------------------------------------------------------------------
(* State of the call stack *)

Top == stack[Len(stack)]
HasNext ==
    /\ stack # <<>>
    /\ Top.idx < Min(Top.len, Len(ArrayOf(Top, subscribers)))
Current == ArrayOf(Top, subscribers)[Top.idx + 1]
Idle == stack = <<>>

\* The sale and refill handlers are called once per registration in the pass:
\* the bounds on the stock are applied to what the whole pass will do.
InBounds(ev) ==
    ev.machineId \in MachineIds =>
        LET n(h) == Count(Lookup(subscribers, ev.type), h)
            s == machines[ev.machineId].stockLevel
        IN  /\ ev.type = "sale" => s - ev.qty * n(saleSubscriber) >= -MaxShortfall
            /\ ev.type = "refill" => s + ev.qty * n(refillSubscriber) <= MaxStock

----------------------------------------------------------------------------
(* Operations called by the program (top level: no publish in progress) *)

Subscribe(type, handler) ==
    /\ Idle
    /\ IF Inherited(type)
       THEN /\ raised' = "TypeError"
            /\ UNCHANGED <<subscribers, registered, watch>>
       ELSE /\ TotalSubs(subscribers) < MaxSubs
            /\ subscribers' = SubscribeOp(subscribers, type, handler)
            /\ registered' = RegSubscribed(registered, type, handler)
            /\ watch' = watch \ {<<type, handler>>}
            /\ raised' = "none"
    /\ emitted' = <<>>
    /\ calls' = <<>>
    /\ pre' = [machines |-> machines, subscribers |-> subscribers]
    /\ UNCHANGED <<machines, stack, passLog, lowSince, ledger, latchPubs>>

Unsubscribe(type, handler) ==
    /\ Idle
    /\ IF Inherited(type)
       THEN /\ raised' = "TypeError"
            /\ UNCHANGED <<subscribers, stack, registered, watch>>
       ELSE /\ subscribers' = UnsubscribeOp(subscribers, type, handler)
            /\ stack' = Detach(stack, subscribers, type)
            /\ registered' = RegUnsubscribed(registered, type, handler)
            /\ \E w \in {watch, {<<type, handler>>}} : watch' = w
            /\ raised' = "none"
    /\ emitted' = <<>>
    /\ calls' = <<>>
    /\ pre' = [machines |-> machines, subscribers |-> subscribers]
    /\ UNCHANGED <<machines, passLog, lowSince, ledger, latchPubs>>

PublishCall(ev) ==
    /\ Idle
    /\ InBounds(ev)
    /\ stack' = IF Inherited(ev.type) THEN <<>> ELSE NewFrames(subscribers, ev)
    /\ raised' = IF Inherited(ev.type) THEN "TypeError" ELSE "none"
    /\ passLog' = NewPass(stack', ev, subscribers, registered, watch, 1)
    /\ emitted' = Published("main", <<ev>>, subscribers, registered, 0)
    /\ calls' = <<>>
    /\ pre' = [machines |-> machines, subscribers |-> subscribers]
    /\ UNCHANGED <<machines, subscribers, registered, watch, lowSince, latchPubs>>

Publish(ev) == PublishCall(ev) /\ UNCHANGED ledger

\* publish() with the event tallied in the ledger.
PublishTallied(ev) == PublishCall(ev) /\ ledger' = Ledgered(ledger, ev)

----------------------------------------------------------------------------
(* Steps of a publish in progress *)

Advanced(stk) == [stk EXCEPT ![Len(stk)].idx = @ + 1]
Logged(log, h) == [log EXCEPT ![Len(log)].delivered = Append(@, h)]
Called(cs, h) ==
    Append(cs, [h |-> h, pub |-> passLog[Len(passLog)].pub, depth |-> Len(stack),
                threw |-> FALSE])
CalledAndThrew(cs, h) ==
    Append(cs, [h |-> h, pub |-> passLog[Len(passLog)].pub, depth |-> Len(stack),
                threw |-> TRUE])

\* Faulty variant: the nested delivery is queued behind the loops in progress
\* (breadth-first) instead of running at once.
PushDeferred(stk, frames) == frames \o stk

\* A publish() made inside a handler is a synchronous call: its forEach runs
\* on top of the loop that called the handler.
Push(stk, frames) == stk \o frames

\* Faulty variant: publish() catches what a handler throws, so the exception
\* ends the innermost forEach only.
UnwindOnePass(stk) == SubSeq(stk, 1, Len(stk) - 1)

\* Neither publish() nor any handler has a try/catch: an exception thrown by
\* a handler leaves every forEach in progress.
Unwind(stk) == SubSeq(stk, 1, 0)

\* forEach calls the next handler; a publish() made by the handler starts
\* the nested forEach before the outer one goes on.
Invoke(h) ==
    /\ HasNext
    /\ Current = h
    /\ LET r == Handle(h, machines, Top.ev)
           new == IF r.out = <<>> THEN <<>> ELSE NewFrames(subscribers, r.out[1])
       IN  /\ machines' = r.machines
           /\ stack' = IF r.threw THEN Unwind(stack) ELSE Push(Advanced(stack), new)
           /\ passLog' = IF r.threw THEN Unwind(passLog)
                         ELSE Push(Logged(passLog, h),
                                   IF r.out = <<>> THEN <<>>
                                   ELSE NewPass(new, r.out[1], subscribers, registered,
                                                watch, Len(emitted) + 1))
           /\ emitted' = emitted \o Published(h, r.out, subscribers, registered, Len(calls) + 1)
           /\ calls' = IF r.threw THEN CalledAndThrew(calls, h) ELSE Called(calls, h)
           /\ lowSince' = LowSinceAfter(lowSince, h, r.out)
           /\ latchPubs' = LatchPubsAfter(latchPubs, h, r.out)
    /\ UNCHANGED <<subscribers, pre, registered, watch, ledger, raised>>

HandleSale == Invoke(saleSubscriber)
HandleRefill == Invoke(refillSubscriber)
HandleLowStockWarning == Invoke(lowStockWarningSubscriber)
HandleStockLevelOk == Invoke(stockLevelOkSubscriber)

\* A handler of the caller (any other ISubscriber): it may call subscribe or
\* unsubscribe on the service while it is being delivered to.
NoOp == [op |-> "none", type |-> "", handler |-> ""]
RegistryOps(kinds, handlers) ==
    {NoOp} \cup [op : {"subscribe", "unsubscribe"}, type : kinds, handler : handlers]

HandleGeneric(o) ==
    /\ HasNext
    /\ Current \in GenericHandlers
    /\ IF o.op # "none" /\ Inherited(o.type)
       THEN \* the call of the service raises TypeError inside the handler, which
            \* does not catch it: every loop in progress is left
            /\ stack' = Unwind(stack)
            /\ passLog' = Unwind(passLog)
            /\ calls' = CalledAndThrew(calls, Current)
            /\ UNCHANGED <<subscribers, registered, watch>>
       ELSE /\ o.op = "subscribe" => TotalSubs(subscribers) < MaxSubs
            /\ subscribers' =
                  CASE o.op = "subscribe" -> SubscribeOp(subscribers, o.type, o.handler)
                    [] o.op = "unsubscribe" -> UnsubscribeOp(subscribers, o.type, o.handler)
                    [] OTHER -> subscribers
            /\ stack' = IF o.op = "unsubscribe"
                        THEN Detach(Advanced(stack), subscribers, o.type)
                        ELSE Advanced(stack)
            /\ passLog' = Logged(passLog, Current)
            /\ calls' = Called(calls, Current)
            /\ registered' =
                  CASE o.op = "subscribe" -> RegSubscribed(registered, o.type, o.handler)
                    [] o.op = "unsubscribe" -> RegUnsubscribed(registered, o.type, o.handler)
                    [] OTHER -> registered
            /\ \E w \in (IF o.op = "unsubscribe" THEN {watch, {<<o.type, o.handler>>}}
                         ELSE IF o.op = "subscribe" THEN {watch \ {<<o.type, o.handler>>}}
                         ELSE {watch}) : watch' = w
    /\ UNCHANGED <<machines, emitted, pre, lowSince, ledger, latchPubs, raised>>

\* A handler of the caller throws: the exception propagates to the caller of
\* the top-level publish.
HandleGenericThrows ==
    /\ HasNext
    /\ Current \in GenericHandlers
    /\ stack' = Unwind(stack)
    /\ passLog' = Unwind(passLog)
    /\ calls' = CalledAndThrew(calls, Current)
    /\ UNCHANGED <<machines, subscribers, emitted, pre, registered, watch, lowSince,
                   ledger, latchPubs, raised>>

\* forEach has visited every index: publish() returns to its caller.
Return ==
    /\ stack # <<>>
    /\ ~HasNext
    /\ stack' = SubSeq(stack, 1, Len(stack) - 1)
    /\ passLog' = SubSeq(passLog, 1, Len(passLog) - 1)
    /\ UNCHANGED <<machines, subscribers, emitted, calls, pre, registered, watch,
                   lowSince, ledger, latchPubs, raised>>

----------------------------------------------------------------------------
(* Specifications *)

EmptyRegistry == [k \in {} |-> <<>>]

InitCommon ==
    /\ machines = [m \in MachineIds |-> Machine]
    /\ stack = <<>>
    /\ passLog = <<>>
    /\ emitted = <<>>
    /\ calls = <<>>
    /\ watch = {}
    /\ lowSince = [m \in MachineIds |-> 0]
    /\ ledger = [m \in MachineIds |-> 0]
    /\ latchPubs = [m \in MachineIds |-> [low |-> 0, ok |-> 0]]
    /\ raised = "none"

\* After construction of the service and the machines.
Init ==
    /\ InitCommon
    /\ subscribers = EmptyRegistry
    /\ registered = [k \in Kinds |-> <<>>]
    /\ pre = [machines |-> machines, subscribers |-> subscribers]

\* The calls of subscribe explored for the stock handlers (subscribe takes
\* any handler under any string): the sale and the refill handler under the
\* kind they consume and under one kind whose events they cannot read, the
\* low-stock and the stock-ok subscriber under the kind they consume and the
\* kind they publish, and one listener of the caller on the notifications.
StockWiring ==
    {<<"sale", saleSubscriber>>, <<"refill", saleSubscriber>>,
     <<"refill", refillSubscriber>>, <<"lowStockWarning", refillSubscriber>>,
     <<"sale", lowStockWarningSubscriber>>,
     <<"lowStockWarning", lowStockWarningSubscriber>>,
     <<"refill", stockLevelOkSubscriber>>,
     <<"stockLevelOk", stockLevelOkSubscriber>>,
     <<"lowStockWarning", "g1">>, <<"stockLevelOk", "g1">>}
\* The events published to them: sales and refills for one machine and for
\* an id that no machine has.
StockEvents ==
    {e \in SaleEvents \cup RefillEvents : e.machineId \in {"001", UnknownId}}

Next ==
    \/ \E p \in StockWiring : Subscribe(p[1], p[2])
    \/ \E e \in StockEvents : Publish(e)
    \/ HandleSale
    \/ HandleRefill
    \/ HandleLowStockWarning
    \/ HandleStockLevelOk
    \/ HandleGeneric(NoOp)
    \/ HandleGenericThrows
    \/ Return

Spec == Init /\ [][Next]_vars

\* The registrations of the main function (its four subscribe calls), then
\* publish called as a method of the service with Sale and Refill events.
InitWired ==
    /\ InitCommon
    /\ subscribers = [k \in {"sale", "refill", "low_stock_warning", "stock_level_ok"} |->
                        CASE k = "sale" -> <<saleSubscriber>>
                          [] k = "refill" -> <<refillSubscriber>>
                          [] k = "low_stock_warning" -> <<lowStockWarningSubscriber>>
                          [] k = "stock_level_ok" -> <<stockLevelOkSubscriber>>]
    /\ registered = [k \in Kinds |-> Lookup(subscribers, k)]
    /\ pre = [machines |-> machines, subscribers |-> subscribers]

NextWired ==
    \/ \E e \in SaleEvents \cup RefillEvents : PublishTallied(e)
    \/ HandleSale
    \/ HandleRefill
    \/ Return

SpecWired == InitWired /\ [][NextWired]_vars

\* The dispatcher with handlers of the caller that subscribe and unsubscribe
\* during delivery, next to the sale handler.
DispatchKinds == {"sale", "stockLevelOk"}
DispatchHandlers == GenericHandlers \cup {saleSubscriber}
DispatchEvents == {MachineSaleEvent(8, "001"), StockLevelOkEvent("001"),
                   LowStockWarningEvent("001")} \cup CallerEvents

NextDispatch ==
    \/ \E k \in DispatchKinds \cup PrototypeKeys, h \in DispatchHandlers : Subscribe(k, h)
    \/ \E k \in DispatchKinds \cup PrototypeKeys, h \in DispatchHandlers : Unsubscribe(k, h)
    \/ \E e \in DispatchEvents : Publish(e)
    \/ HandleSale
    \/ \E o \in RegistryOps(DispatchKinds \cup PrototypeKeys, DispatchHandlers) :
          HandleGeneric(o)
    \/ Return

SpecDispatch == Init /\ [][NextDispatch]_vars

\* The sale and the refill handler on their kinds and events for two of the
\* machines; between the events the low-stock and the stock-ok subscriber
\* are subscribed to and unsubscribed from the kind they consume and the
\* kind they publish, and the refill handler from 'lowStockWarning'.
InitFleet ==
    /\ InitCommon
    /\ subscribers = [k \in {"sale", "refill"} |->
                        IF k = "sale" THEN <<saleSubscriber>> ELSE <<refillSubscriber>>]
    /\ registered = [k \in Kinds |-> Lookup(subscribers, k)]
    /\ pre = [machines |-> machines, subscribers |-> subscribers]

FleetWiring ==
    {<<"sale", lowStockWarningSubscriber>>, <<"lowStockWarning", lowStockWarningSubscriber>>,
     <<"refill", stockLevelOkSubscriber>>, <<"stockLevelOk", stockLevelOkSubscriber>>,
     <<"lowStockWarning", refillSubscriber>>}
FleetEvents ==
    {MachineSaleEvent(8, "001"), MachineRefillEvent(5, "001"), MachineSaleEvent(8, "002")}

NextFleet ==
    \/ \E p \in FleetWiring : Subscribe(p[1], p[2])
    \/ \E p \in FleetWiring : Unsubscribe(p[1], p[2])
    \/ \E e \in FleetEvents : Publish(e)
    \/ HandleSale
    \/ HandleRefill
    \/ HandleLowStockWarning
    \/ HandleStockLevelOk
    \/ Return

SpecFleet == InitFleet /\ [][NextFleet]_vars

\* The sale and the refill handler on their kind, the low-stock and the
\* stock-ok subscriber on all four kinds.  publish() and the handlers are
\* synchronous calls on one thread: a delivery in progress takes its next
\* step, which is the weak fairness of Deliver.
InitNotify ==
    /\ InitCommon
    /\ subscribers =
          [k \in EventKinds |->
              (CASE k = "sale" -> <<saleSubscriber>>
                 [] k = "refill" -> <<refillSubscriber>>
                 [] OTHER -> <<>>)
              \o <<lowStockWarningSubscriber, stockLevelOkSubscriber>>]
    /\ registered = [k \in Kinds |-> Lookup(subscribers, k)]
    /\ pre = [machines |-> machines, subscribers |-> subscribers]

NotifyEvents == {e \in Events : e.machineId = "001"}

Deliver ==
    \/ HandleSale
    \/ HandleRefill
    \/ HandleLowStockWarning
    \/ HandleStockLevelOk
    \/ Return

NextNotify ==
    \/ \E e \in NotifyEvents : Publish(e)
    \/ HandleSale
    \/ HandleRefill
    \/ HandleLowStockWarning
    \/ HandleStockLevelOk
    \/ Return

SpecNotify == InitNotify /\ [][NextNotify]_vars /\ WF_vars(Deliver)

TypeOK ==
    /\ DOMAIN subscribers \subseteq Kinds
    /\ Len(passLog) = Len(stack)
    /\ Cardinality(watch) <= 1
    /\ raised \in {"none", "TypeError"}

----------------------------------------------------------------------------
(* Vocabulary of the properties *)

\* The latest top-level publish ended with an exception of a handler.
Failed == calls # <<>> /\ calls[Len(calls)].threw
\* A top-level publish has returned normally and nothing was called since.
Completed == Idle /\ emitted # <<>> /\ ~Failed /\ raised = "none"
TopEvent == emitted[1].ev

\* The latest top-level publish was a Sale / Refill for the machine m.
SaleOf(m) == emitted # <<>> /\ TopEvent.type = "sale" /\ TopEvent.machineId = m
RefillOf(m) == emitted # <<>> /\ TopEvent.type = "refill" /\ TopEvent.machineId = m

\* Indices of the publish calls of event e made by a handler in by.
PublishedBy(e, by) ==
    {i \in DOMAIN emitted : emitted[i].ev = e /\ emitted[i].by \in by}
\* Handlers called, in order, by the pass of the publish call number i.
DeliveredOf(i) ==
    LET cs == SelectSeq(calls, LAMBDA c : c.pub = i)
    IN  [j \in DOMAIN cs |-> cs[j].h]

CrossedUp(m) ==
    /\ pre.machines[m].stockLevel < Threshold
    /\ machines[m].stockLevel >= Threshold
CrossedDown(m) ==
    /\ pre.machines[m].stockLevel >= Threshold
    /\ machines[m].stockLevel < Threshold

----------------------------------------------------------------------------
(* C1: with the program's wiring (the sale handler on 'sale', the refill    *)
(* handler on 'refill'), LowStockWarning is published at most once for a    *)
(* machine between two refills that bring its stock from below 3 back to 3  *)
(* or more.  The sale handler publishes on every sale that ends below 3.    *)
C1_WarningOncePerEpisode ==
    \A m \in MachineIds : lowSince[m] <= 1

(* C2: a Refill for a machine whose stock is already 3 or more before the   *)
(* refill causes no StockOk to be published for that machine.  The stock-ok *)
(* subscriber publishes one on the first such refill it sees.               *)
C2_NoStockOkWhenStockAlreadyOk ==
    \A m \in MachineIds :
        (RefillOf(m) /\ pre.machines[m].stockLevel >= Threshold)
            => PublishedBy(StockLevelOkEvent(m), Handlers) = {}

(* C3: when the sale handler takes a machine whose low-stock latch is idle  *)
(* below 3, the latch is set and exactly one LowStockWarning is published   *)
(* for that Sale.  The sale handler publishes but never sets the latch.     *)
C3_SaleSetsLatchAndWarnsOnce ==
    \A m \in MachineIds :
        (/\ Completed
         /\ SaleOf(m)
         /\ ~pre.machines[m].lowStockWarningFired
         /\ machines[m].stockLevel < Threshold)
            => /\ machines[m].lowStockWarningFired
               /\ Cardinality(PublishedBy(LowStockWarningEvent(m), Handlers)) = 1

(* C4: a Refill that moves a machine from below 3 to 3 or more has exactly  *)
(* one StockOk published for the machine as its result, and that event is   *)
(* delivered to every handler registered for 'stockLevelOk' at that moment, *)
(* in order.  With the stock-ok subscriber on 'refill' next to the refill   *)
(* handler each of the two publishes its own StockOk.                       *)
C4_RefillCrossingPublishesOneStockOk ==
    \A m \in MachineIds :
        (Completed /\ RefillOf(m) /\ CrossedUp(m))
            => LET all == PublishedBy(StockLevelOkEvent(m), Handlers)
               IN  /\ Cardinality(all) = 1
                   /\ \A i \in all :
                         /\ emitted[i].to = emitted[i].reg
                         /\ DeliveredOf(i) = emitted[i].reg

(* C5: crossing the threshold clears the opposite latch: after a Refill     *)
(* that raises the stock from below 3 to 3 or more lowStockWarningFired is  *)
(* false, after a Sale that lowers it from 3 or more to below 3             *)
(* stockLevelOkFired is false.  No handler ever clears a latch.             *)
C5_CrossingClearsOppositeLatch ==
    \A m \in MachineIds :
        /\ (Completed /\ RefillOf(m) /\ CrossedUp(m))
              => ~machines[m].lowStockWarningFired
        /\ (Completed /\ SaleOf(m) /\ CrossedDown(m))
              => ~machines[m].stockLevelOkFired

----------------------------------------------------------------------------
(* Dispatcher properties *)

\* The pass of frame i has visited every index of its forEach.
PassOver(i) == i = Len(stack) /\ ~HasNext

\* A subscribe / unsubscribe call, by the program or by a handler during
\* delivery.
SubscribeStep(k, h) ==
    \/ Subscribe(k, h)
    \/ HandleGeneric([op |-> "subscribe", type |-> k, handler |-> h])
UnsubscribeStep(k, h) ==
    \/ Unsubscribe(k, h)
    \/ HandleGeneric([op |-> "unsubscribe", type |-> k, handler |-> h])

(* C6: a pass delivers to exactly the handlers that were registered for the *)
(* kind when its publish call began, in that order, whatever the handlers   *)
(* subscribe or unsubscribe during the pass.                                *)
C6_PassDeliversSnapshot ==
    \A i \in DOMAIN stack :
        /\ passLog[i].delivered = SubSeq(passLog[i].snap, 1, stack[i].idx)
        /\ PassOver(i) => passLog[i].delivered = passLog[i].snap

C6_Witness ==
    /\ Len(stack) = 1
    /\ PassOver(1)
    /\ passLog[1].snap = <<"g1", "g2">>
    /\ passLog[1].delivered = <<"g1", "g2">>
    /\ subscribers[stack[1].key] = <<"g1">>

(* C7: a pass invokes the handlers registered for the kind in the order of  *)
(* their registration (subscribe appends, unsubscribe keeps the order of    *)
(* the others) and no handler that is registered for other kinds only.      *)
C7_RegistrationOrder ==
    \A i \in DOMAIN stack :
        /\ passLog[i].delivered = SubSeq(passLog[i].order, 1, stack[i].idx)
        /\ PassOver(i) => passLog[i].delivered = passLog[i].order

C7_Witness ==
    /\ Len(stack) = 1
    /\ PassOver(1)
    /\ Len(passLog[1].order) = 2
    /\ passLog[1].delivered = passLog[1].order
    /\ passLog[1].delivered[1] # passLog[1].delivered[2]
    /\ \E k \in DOMAIN subscribers \ {stack[1].key} :
          \E h \in Range(subscribers[k]) : h \notin Range(passLog[1].delivered)

(* C8: unsubscribe(kind, handler) removes every occurrence of the handler   *)
(* from the kind: no pass of that kind that begins before the handler is    *)
(* subscribed again invokes it, and every other registration stays.         *)
C8_UnsubscribeRemovesAll ==
    /\ \A p \in watch : p[2] \notin Range(Lookup(subscribers, p[1]))
    /\ \A i \in DOMAIN passLog :
          Range(passLog[i].delivered) \cap passLog[i].banned = {}
    /\ \A k \in Kinds : Lookup(subscribers, k) = registered[k]

C8_Witness ==
    /\ Len(stack) = 1
    /\ PassOver(1)
    /\ passLog[1].banned # {}
    /\ passLog[1].delivered # <<>>
    /\ \E h \in passLog[1].banned :
          \E k \in DOMAIN subscribers \ {stack[1].key} : h \in Range(subscribers[k])

(* C9: unsubscribe(kind, handler) is a no-op that raises no error when the  *)
(* kind was never registered or the handler is not in its sequence: the     *)
(* handler sequence of every kind and every machine are as before.  For a   *)
(* kind that names a member of Object.prototype the call raises TypeError.  *)
C9_UnsubscribeAbsentIsNoOp ==
    [][\A k \in DispatchKinds \cup PrototypeKeys, h \in DispatchHandlers :
          (h \notin Range(Lookup(subscribers, k)) /\ UnsubscribeStep(k, h))
              => /\ \A k2 \in Kinds : Lookup(subscribers', k2) = Lookup(subscribers, k2)
                 /\ machines' = machines
                 /\ raised' = "none"
                 /\ ~Failed']_vars

(* C10: publishing an event whose kind has no subscriber (never registered, *)
(* or all unsubscribed) raises no error, invokes no handler, publishes      *)
(* nothing further and leaves every machine and the registry unchanged.     *)
(* For a kind that names a member of Object.prototype publish raises        *)
(* TypeError.                                                               *)
C10_PublishWithoutSubscribers ==
    (emitted # <<>> /\ emitted[1].reg = <<>>)
        => /\ calls = <<>>
           /\ Len(emitted) = 1
           /\ machines = pre.machines
           /\ subscribers = pre.subscribers
           /\ raised = "none"

----------------------------------------------------------------------------
(* Stock properties, continued *)

(* C11: a Sale or Refill event whose machineId matches no machine is a      *)
(* silent no-op in every subscriber that receives it (sale, refill,         *)
(* low-stock, stock-ok): no machine changes, no further event is published  *)
(* and no handler fails.                                                    *)
C11_UnknownMachineIsNoOp ==
    (/\ emitted # <<>>
     /\ TopEvent.type \in {"sale", "refill"}
     /\ TopEvent.machineId \notin MachineIds)
        => /\ machines = pre.machines
           /\ Len(emitted) = 1
           /\ \A j \in DOMAIN calls : ~calls[j].threw
           /\ DeliveredOf(1) = SubSeq(emitted[1].to, 1, Len(calls))

C11_Witness ==
    /\ Completed
    /\ SaleOf(UnknownId)
    /\ machines["001"].stockLevel < Threshold
    /\ saleSubscriber \in Range(DeliveredOf(1))
    /\ lowStockWarningSubscriber \in Range(DeliveredOf(1))

\* Publish calls made by handlers, and the calls a pass made after call a.
Nested == {i \in DOMAIN emitted : emitted[i].at > 0}
LaterCallsOf(pass, a) == {j \in DOMAIN calls : j > a /\ calls[j].pub = pass}

(* C12: delivery is depth-first.  A publish made by a handler invokes every *)
(* handler registered for the kind of its event at that time, one level     *)
(* deeper than the handler, and returns before the outer pass invokes its   *)
(* next handler; the outer pass then goes on with its remaining handlers.   *)
C12_DepthFirst ==
    /\ \A i \in Nested :
          LET a == emitted[i].at
          IN  /\ \A j \in DOMAIN calls :
                    calls[j].pub = i => j > a /\ calls[j].depth = calls[a].depth + 1
              /\ \A j \in LaterCallsOf(calls[a].pub, a) :
                    /\ DeliveredOf(i) = emitted[i].reg
                    /\ \A k \in DOMAIN calls : calls[k].pub = i => k < j
    /\ Completed => \A i \in DOMAIN emitted : DeliveredOf(i) = emitted[i].reg

C12_Witness ==
    /\ Completed
    /\ \E i \in Nested :
          /\ DeliveredOf(i) # <<>>
          /\ LaterCallsOf(calls[emitted[i].at].pub, emitted[i].at) # {}

\* Invocations of handler h by the top-level pass that returned normally.
CallsOf(h) ==
    Cardinality({j \in DOMAIN calls :
                    calls[j].h = h /\ calls[j].pub = 1 /\ ~calls[j].threw})

(* C13: a failure of a handler is not caught.  No later handler of the pass *)
(* is invoked, the failure propagates through every enclosing publish (no   *)
(* loop stays in progress), the handler is not retried, and what the        *)
(* handlers that ran before have done to the machines stays.                *)
C13_FailurePropagates ==
    /\ \A j \in DOMAIN calls : calls[j].threw => j = Len(calls) /\ Idle
    /\ Failed => \A i \in DOMAIN emitted : Len(DeliveredOf(i)) <= Len(emitted[i].to)
    /\ Failed =>
          /\ subscribers = pre.subscribers
          /\ \A m \in MachineIds :
                machines[m].stockLevel =
                    pre.machines[m].stockLevel
                    - (IF SaleOf(m) THEN TopEvent.qty * CallsOf(saleSubscriber) ELSE 0)
                    + (IF RefillOf(m) THEN TopEvent.qty * CallsOf(refillSubscriber) ELSE 0)

C13_Witness ==
    /\ Failed
    /\ calls[Len(calls)].depth = 2
    /\ calls[Len(calls)].h = refillSubscriber
    /\ machines # pre.machines
    /\ Len(DeliveredOf(1)) < Len(emitted[1].to)

----------------------------------------------------------------------------
(* Dispatcher properties, continued *)

\* Positions of handler h in the sequence s.
Positions(s, h) == {j \in DOMAIN s : s[j] = h}

(* C14: subscribe does not de-duplicate.  A handler subscribed n times to a *)
(* kind is invoked exactly n times by a pass of that kind, at the positions *)
(* of its registrations.                                                    *)
C14_NoDeduplication ==
    \A i \in DOMAIN stack :
        PassOver(i) =>
            \A h \in Handlers :
                Positions(passLog[i].delivered, h) = Positions(passLog[i].order, h)

C14_Witness ==
    /\ Len(stack) = 1
    /\ PassOver(1)
    /\ \E h \in Handlers : Positions(passLog[1].delivered, h) = {1, 3}

----------------------------------------------------------------------------
(* Stock properties with both kinds of subscriber wired *)

\* The top-level event went to exactly one registration of each of h1, h2.
BothWired(h1, h2) ==
    /\ Count(emitted[1].to, h1) = 1
    /\ Count(emitted[1].to, h2) = 1

(* C15: with the sale handler and the low-stock subscriber both registered  *)
(* for 'sale', a Sale that takes a machine from 3 or more to below 3 has    *)
(* exactly one LowStockWarning published for the machine; with the refill   *)
(* handler and the stock-ok subscriber both registered for 'refill', a      *)
(* Refill that crosses upward has exactly one StockOk published.  Each of   *)
(* the two handlers publishes its own event.                                *)
C15_SingleFireWithBothWired ==
    \A m \in MachineIds :
        /\ (/\ Completed /\ SaleOf(m) /\ CrossedDown(m)
            /\ BothWired(saleSubscriber, lowStockWarningSubscriber))
              => Cardinality(PublishedBy(LowStockWarningEvent(m), Handlers)) = 1
        /\ (/\ Completed /\ RefillOf(m) /\ CrossedUp(m)
            /\ BothWired(refillSubscriber, stockLevelOkSubscriber))
              => Cardinality(PublishedBy(StockLevelOkEvent(m), Handlers)) = 1

(* C16: a StockOk for a machine is published only as the result of a Refill *)
(* for it that crosses the threshold upward: the stock was below 3 before   *)
(* the Refill and is 3 or more after it.  The stock-ok subscriber publishes *)
(* on the first Refill it sees at 3 or more, whatever the stock was before. *)
C16_StockOkOnlyOnUpwardCrossing ==
    \A m \in MachineIds :
        PublishedBy(StockLevelOkEvent(m), Handlers) # {}
            => /\ RefillOf(m)
               /\ pre.machines[m].stockLevel < Threshold
               /\ Completed => machines[m].stockLevel >= Threshold

----------------------------------------------------------------------------
(* Machine properties *)

(* C17: with the sale handler registered once for 'sale' and the refill     *)
(* handler once for 'refill', after any sequence of published Sale and      *)
(* Refill events the stockLevel of each machine is 10 minus the quantities  *)
(* sold plus the quantities refilled by the events addressed to its id;     *)
(* there is no floor or ceiling, so it can be negative.                     *)
C17_StockIsInitialPlusLedger ==
    Idle => \A m \in MachineIds : machines[m].stockLevel = InitialStock + ledger[m]

C17_Witness ==
    /\ Completed
    /\ RefillOf("002")
    /\ machines["002"].stockLevel = 4
    /\ machines["001"].stockLevel < 0

(* C18: the stock of a machine is changed by the sale and the refill        *)
(* handler only, and only for the machine the event is addressed to: the    *)
(* stockLevel and the latches of every other machine stay as they are, and  *)
(* subscribe, unsubscribe, the low-stock and the stock-ok subscriber and    *)
(* the delivery of LowStockWarning and StockOk events change no stockLevel  *)
(* and no id.                                                               *)
C18_StockFrame ==
    [][/\ DOMAIN machines' = DOMAIN machines
       /\ \A m \in MachineIds :
             /\ machines'[m].stockLevel # machines[m].stockLevel
                   => /\ HasNext
                      /\ Current \in {saleSubscriber, refillSubscriber}
                      /\ Top.ev.machineId = m
             /\ machines'[m] # machines[m]
                   => /\ HasNext
                      /\ Top.ev.type \in {"sale", "refill"}
                      /\ Top.ev.machineId = m]_vars

C18_Witness ==
    /\ Completed
    /\ SaleOf("002")
    /\ \E j \in DOMAIN calls : calls[j].depth = 2 /\ calls[j].h = lowStockWarningSubscriber
    /\ machines["001"].lowStockWarningFired
    /\ machines["001"].stockLevel < machines["002"].stockLevel
    /\ watch # {}

(* C19: the latches are monotonic: a latch that is true stays true in every *)
(* later state.  Over any run the low-stock subscriber therefore publishes  *)
(* at most one LowStockWarning per machine and the stock-ok subscriber at   *)
(* most one StockOk per machine, however often the stock crosses 3, and the *)
(* latch is true from the step that makes the publish call on.              *)
C19_LatchesMonotonic ==
    [][\A m \in MachineIds :
          /\ machines[m].lowStockWarningFired => machines'[m].lowStockWarningFired
          /\ machines[m].stockLevelOkFired => machines'[m].stockLevelOkFired
          /\ latchPubs'[m].low <= 1
          /\ latchPubs'[m].ok <= 1
          /\ latchPubs'[m].low > latchPubs[m].low
                => ~machines[m].lowStockWarningFired /\ machines'[m].lowStockWarningFired
          /\ latchPubs'[m].ok > latchPubs[m].ok
                => ~machines[m].stockLevelOkFired /\ machines'[m].stockLevelOkFired]_vars

C19_Witness ==
    /\ Completed
    /\ SaleOf("001")
    /\ CrossedDown("001")
    /\ pre.machines["001"].lowStockWarningFired
    /\ lowStockWarningSubscriber \in Range(DeliveredOf(1))
    /\ latchPubs["001"].low = 1

----------------------------------------------------------------------------
(* Termination *)

(* C20: every top-level publish terminates.  With the sale and the refill   *)
(* handler on their own kind and the low-stock and the stock-ok subscriber  *)
(* on all four kinds, the delivery of a LowStockWarning or StockOk event    *)
(* makes no further publish call: publish is nested at most 2 deep, a pass  *)
(* calls no more handlers than its kind had when it began, and the publish  *)
(* in progress returns to the program.                                      *)
C20_PublishTerminates ==
    /\ [](/\ Len(stack) <= 2
          /\ \A i \in DOMAIN emitted :
                /\ emitted[i].ev.type \in {"lowStockWarning", "stockLevelOk"}
                      => \A k \in Nested : calls[emitted[k].at].pub # i
                /\ Len(DeliveredOf(i)) <= Len(emitted[i].to)
          /\ Len(emitted) <= 1 + Len(DeliveredOf(1)))
    /\ (~Idle ~> Idle)

C20_Witness ==
    /\ Completed
    /\ SaleOf("001")
    /\ Len(emitted) = 3
    /\ Len(calls) = 7
    /\ \E j \in DOMAIN calls : calls[j].depth = 2 /\ calls[j].h = lowStockWarningSubscriber

====
